---- MODULE Spec2Model ----
(***************************************************************************)
(* Model of bvault_js_rs::decrypt_sync (src/bvault_js_rs/src/lib.rs).      *)
(*                                                                         *)
(* Byte strings are sequences over 0..255; text (the base64 arguments) is  *)
(* a sequence of ASCII codes.  base64 decoding, CBC chaining, PKCS#7       *)
(* unpadding and UTF-8 validation are modelled byte for byte.  The two     *)
(* cryptographic primitives, the AES-256 block function and                *)
(* PBKDF2-HMAC-SHA256, are replaced by stand-ins with the same interface:  *)
(* a keyed permutation of 16-byte blocks under a 32-byte key, and a        *)
(* deterministic function of (password, salt, rounds) to 32 bytes.         *)
(***************************************************************************)
EXTENDS Integers, Sequences, FiniteSets, TLC

----------------------------------------------------------------------------
(* Program constants *)

\* AES block size; also the IV length required at lib.rs:37
BlockSize == 16

\* output length of pbkdf2_hmac_array::<Sha256, 32>, lib.rs:42
KeyLen == 32

\* PBKDF2 iteration count, lib.rs:42
Iterations == 100000

(* Bounds of the model *)

\* plaintexts of every length 0..MaxPlainLen are encrypted and fed back
MaxPlainLen == 17

----------------------------------------------------------------------------
(* Bytes, 0..255 *)

RECURSIVE Xor(_, _)
Xor(a, b) ==
  IF a = 0 THEN b
  ELSE IF b = 0 THEN a
  ELSE ((a + b) % 2) + 2 * Xor(a \div 2, b \div 2)

RECURSIVE SumSeq(_)
SumSeq(s) == IF s = <<>> THEN 0 ELSE Head(s) + SumSeq(Tail(s))

Fill(n, b) == [i \in 1..n |-> b]

----------------------------------------------------------------------------
(* base64, STANDARD engine: RFC 4648 alphabet, canonical padding required *)

PadChar == 61

\* value of a base64 symbol, -1 for any other character
B64Value(ch) ==
  IF ch >= 65 /\ ch <= 90 THEN ch - 65
  ELSE IF ch >= 97 /\ ch <= 122 THEN ch - 97 + 26
  ELSE IF ch >= 48 /\ ch <= 57 THEN ch - 48 + 52
  ELSE IF ch = 43 THEN 62
  ELSE IF ch = 47 THEN 63
  ELSE -1

B64Char(v) ==
  IF v < 26 THEN 65 + v
  ELSE IF v < 52 THEN 97 + (v - 26)
  ELSE IF v < 62 THEN 48 + (v - 52)
  ELSE IF v = 62 THEN 43
  ELSE 47

\* the bytes carried by the first m symbols of s (m % 4 is 0, 2 or 3): byte j
\* is cut from two neighbouring symbols of its group of four
SymbolsToBytes(s, m) ==
  [j \in 1..((m * 3) \div 4) |->
     LET g == 4 * ((j - 1) \div 3)
         k == (j - 1) % 3
     IN  IF k = 0 THEN B64Value(s[g + 1]) * 4 + (B64Value(s[g + 2]) \div 16)
         ELSE IF k = 1
         THEN (B64Value(s[g + 2]) % 16) * 16 + (B64Value(s[g + 3]) \div 4)
         ELSE (B64Value(s[g + 3]) % 4) * 64 + B64Value(s[g + 4])]

\* base64::Engine::decode(&STANDARD, s): ok is FALSE on any DecodeError
B64Decode(s) ==
  LET n == Len(s)
      pad == IF n >= 2 /\ s[n] = PadChar /\ s[n - 1] = PadChar THEN 2
             ELSE IF n >= 1 /\ s[n] = PadChar THEN 1
             ELSE 0
      m == n - pad
      bad == [ok |-> FALSE, bytes |-> <<>>]
  IN  IF n % 4 # 0 THEN bad
      ELSE IF \E i \in 1..m : B64Value(s[i]) < 0 THEN bad
      ELSE IF pad = 2 /\ B64Value(s[m]) % 16 # 0 THEN bad
      ELSE IF pad = 1 /\ B64Value(s[m]) % 4 # 0 THEN bad
      ELSE [ok |-> TRUE, bytes |-> SymbolsToBytes(s, m)]

\* the helper b64_to_bytes: Err("invalid base64") on any decode error
b64_to_bytes(string) == B64Decode(string)

\* the reference encoder used to build arguments (RFC 4648 with padding)
B64Encode(b) ==
  LET n == Len(b)
      at(j) == IF j <= n THEN b[j] ELSE 0
  IN  [i \in 1..(4 * ((n + 2) \div 3)) |->
         LET g == 3 * ((i - 1) \div 4)
             k == (i - 1) % 4
         IN  IF k = 0 THEN B64Char(at(g + 1) \div 4)
             ELSE IF k = 1 THEN B64Char((at(g + 1) % 4) * 16 + (at(g + 2) \div 16))
             ELSE IF k = 2
             THEN IF g + 2 > n THEN PadChar
                  ELSE B64Char((at(g + 2) % 16) * 4 + (at(g + 3) \div 64))
             ELSE IF g + 3 > n THEN PadChar
                  ELSE B64Char(at(g + 3) % 64)]

----------------------------------------------------------------------------
(* Key derivation and the block cipher *)

\* pbkdf2_hmac_array::<Sha256, 32>(password, salt, rounds): a deterministic
\* function of its three arguments to an array of KeyLen bytes
pbkdf2_hmac_array(pw, slt, rounds) ==
  [i \in 1..KeyLen |->
     (SumSeq(pw) * 3 + Len(pw) * 7 + SumSeq(slt) * 5 + Len(slt) * 11
        + i * 13 + rounds) % 256]

\* Aes256CbcDec::new_from_slices(key, iv): Err(InvalidLength) unless the key
\* is KeyLen bytes and the IV is one block
new_from_slices(k, v) == Len(k) = KeyLen /\ Len(v) = BlockSize

\* position of byte i inside its block, 1..BlockSize
Pos(i) == ((i - 1) % BlockSize) + 1

\* the block function of the cipher and its inverse, one byte of a block
EncByte(k, j, b) == (b + k[j] + k[j + BlockSize]) % 256
DecByte(k, j, b) == (b + 512 - k[j] - k[j + BlockSize]) % 256

\* CBC decryption of whole blocks in place: each block is deciphered and
\* xored with the previous ciphertext block, the IV for the first
decrypt_blocks_mut(k, v, b) ==
  [i \in 1..Len(b) |->
     Xor(DecByte(k, Pos(i), b[i]),
         IF i <= BlockSize THEN v[i] ELSE b[i - BlockSize])]

\* variant: only the last byte is looked at
Pkcs7UnpadLastByteOnly(block) ==
  LET n == block[BlockSize]
  IN  IF n = 0 \/ n > BlockSize THEN [ok |-> FALSE, n |-> 0]
      ELSE [ok |-> TRUE, n |-> n]

\* Pkcs7::unpad on the last block: ok and the number n of padding bytes
Pkcs7Unpad(block) ==
  LET n == block[BlockSize]
      s == BlockSize - n
  IN  IF n = 0 \/ n > BlockSize THEN [ok |-> FALSE, n |-> 0]
      ELSE IF \E i \in (s + 1)..(BlockSize - 1) : block[i] # n
      THEN [ok |-> FALSE, n |-> 0]
      ELSE [ok |-> TRUE, n |-> n]

\* variant: no block at all unpads to the empty slice
unpad_blocksEmptyOk(b) ==
  IF Len(b) = 0 THEN [ok |-> TRUE, len |-> 0]
  ELSE LET u == Pkcs7Unpad(SubSeq(b, Len(b) - BlockSize + 1, Len(b)))
       IN  [ok |-> u.ok, len |-> IF u.ok THEN Len(b) - u.n ELSE 0]

\* Padding::unpad_blocks for a reversible padding: no block at all is an
\* UnpadError, otherwise the last block decides; len is the length of the
\* returned slice
unpad_blocks(b) ==
  IF Len(b) = 0 THEN [ok |-> FALSE, len |-> 0]
  ELSE LET u == Pkcs7Unpad(SubSeq(b, Len(b) - BlockSize + 1, Len(b)))
       IN  [ok |-> u.ok, len |-> IF u.ok THEN Len(b) - u.n ELSE 0]

----------------------------------------------------------------------------
(* UTF-8 *)

Cont(b) == b >= 128 /\ b <= 191

\* core::str::from_utf8: well-formed UTF-8 only, so no overlong forms, no
\* surrogates, nothing above U+10FFFF, no truncated sequence
RECURSIVE Utf8ValidFrom(_, _)
Utf8ValidFrom(b, i) ==
  LET n == Len(b)
      b0 == b[i]
  IN  IF i > n THEN TRUE
      ELSE IF b0 < 128 THEN Utf8ValidFrom(b, i + 1)
      ELSE IF b0 >= 194 /\ b0 <= 223
      THEN i + 1 <= n /\ Cont(b[i + 1]) /\ Utf8ValidFrom(b, i + 2)
      ELSE IF b0 >= 224 /\ b0 <= 239
      THEN /\ i + 2 <= n
           /\ Cont(b[i + 1])
           /\ (b0 = 224 => b[i + 1] >= 160)
           /\ (b0 = 237 => b[i + 1] <= 159)
           /\ Cont(b[i + 2])
           /\ Utf8ValidFrom(b, i + 3)
      ELSE IF b0 >= 240 /\ b0 <= 244
      THEN /\ i + 3 <= n
           /\ Cont(b[i + 1])
           /\ (b0 = 240 => b[i + 1] >= 144)
           /\ (b0 = 244 => b[i + 1] <= 143)
           /\ Cont(b[i + 2])
           /\ Cont(b[i + 3])
           /\ Utf8ValidFrom(b, i + 4)
      ELSE FALSE

Utf8Valid(b) == Utf8ValidFrom(b, 1)

----------------------------------------------------------------------------
(* Results *)

Pending == [kind |-> "pending", text |-> <<>>]
Ok(t) == [kind |-> "ok", text |-> t]
\* JsValue::from_str(msg): the error is the message and nothing else
Err(msg) == [kind |-> msg, text |-> <<>>]

InvalidEncoding == "invalid base64"
InvalidIVLength == "IV must be 16 bytes"
InvalidKeyLength == "invalid key/iv length"
DecryptionError == "decryption / padding error"
InvalidUTF8 == "invalid utf-8"

\* variant: the bytes are taken as text unchecked
from_utf8Unchecked(b) == Ok(b)

\* variant: the error carries the bytes it rejected
from_utf8WithBytes(b) ==
  IF Utf8Valid(b) THEN Ok(b) ELSE [kind |-> InvalidUTF8, text |-> b]

\* String::from_utf8(bytes).map_err(|_| "invalid utf-8")
from_utf8(b) == IF Utf8Valid(b) THEN Ok(b) ELSE Err(InvalidUTF8)

----------------------------------------------------------------------------
(* The companion encryption that produces the arguments: PKCS#7 padding,   *)
(* then CBC under the key derived from (password, salt)                     *)

Pkcs7Pad(p) ==
  LET n == BlockSize - (Len(p) % BlockSize) IN p \o Fill(n, n)

\* byte i of the CBC encryption of the whole blocks p
RECURSIVE CbcByte(_, _, _, _)
CbcByte(k, v, p, i) ==
  EncByte(k, Pos(i),
          Xor(p[i], IF i <= BlockSize THEN v[i] ELSE CbcByte(k, v, p, i - BlockSize)))

CbcEncrypt(k, v, p) == [i \in 1..Len(p) |-> CbcByte(k, v, p, i)]

\* ciphertext of whole blocks, no padding added
EncryptRaw(blocks, w, s, v) ==
  CbcEncrypt(pbkdf2_hmac_array(w, s, Iterations), v, blocks)

Encrypt(p, w, s, v) == EncryptRaw(Pkcs7Pad(p), w, s, v)

----------------------------------------------------------------------------
(* Arguments *)

\* "hello" with a two-byte character: prefixes ending inside it are not UTF-8
Pattern == <<104, 195, 169, 108, 108, 111>>
Plaintext(n) == [i \in 1..n |-> Pattern[((i - 1) % Len(Pattern)) + 1]]
\* well-formed and ill-formed UTF-8: three and four byte characters, an
\* overlong form, a surrogate, a code point above U+10FFFF, a lone
\* continuation byte, a truncated character
Utf8Cases ==
  { <<226, 130, 172>>, <<240, 159, 152, 128>>, <<192, 128>>,
    <<237, 160, 128>>, <<244, 144, 128, 128>>, <<65, 128>>, <<65, 226, 130>> }

Plaintexts == {Plaintext(n) : n \in 0..MaxPlainLen} \cup Utf8Cases

Pw1 == <<112, 119>>
Pw2 == <<112, 120>>
Passwords == {Pw1, Pw2}

Salt1 == <<1, 2, 3>>
Salt2 == <<>>
Salts == {Salt1, Salt2}

IV1 == [i \in 1..BlockSize |-> (i * 37) % 256]
IV2 == Fill(BlockSize, 0)

\* text that is not base64: bad length, a foreign character, padding in the
\* middle, non-zero trailing bits
Malformed == {<<65, 65, 65>>, <<65, 42, 61, 61>>, <<65, 61, 65, 65>>, <<65, 66, 61, 61>>}

\* whole blocks whose last block is not PKCS#7 padded: last byte 0, last byte
\* above the block size, and a run of padding bytes broken at either end
BadPadBlocks ==
  { Fill(15, 65) \o <<0>>,
    Fill(15, 65) \o <<17>>,
    Fill(13, 65) \o <<2, 3, 3>>,
    Fill(12, 65) \o <<9, 4, 4, 4>>,
    Fill(16, 66) \o Fill(15, 65) \o <<200>> }

Ciphertexts ==
  {Encrypt(p, Pw1, Salt1, IV1) : p \in Plaintexts}
    \cup {EncryptRaw(b, Pw1, Salt1, IV1) : b \in BadPadBlocks}
    \cup { <<>>, <<7>>,
           SubSeq(Encrypt(Plaintext(5), Pw1, Salt1, IV1), 1, 15),
           Encrypt(Plaintext(5), Pw1, Salt1, IV1) \o <<0>> }

CiphertextArgs == {B64Encode(x) : x \in Ciphertexts} \cup Malformed
IvArgs ==
  {B64Encode(x) : x \in {IV1, IV2, <<>>, SubSeq(IV1, 1, 15), IV1 \o <<1>>}}
    \cup Malformed
SaltArgs == {B64Encode(x) : x \in Salts} \cup Malformed

Arg(ct, pw, v, s) ==
  [b64_ciphertext |-> ct, password |-> pw, b64_iv |-> v, b64_salt |-> s]

\* the arguments of a single invocation
Args ==
  {Arg(ct, pw, v, s) : ct \in CiphertextArgs, pw \in Passwords,
                       v \in IvArgs, s \in SaltArgs}

\* the arguments of interleaved invocations
ArgsConc ==
  {Arg(ct, pw, v, s) :
     ct \in { B64Encode(Encrypt(Plaintext(5), Pw1, Salt1, IV1)),
              B64Encode(Encrypt(Plaintext(2), Pw1, Salt1, IV1)) },
     pw \in Passwords,
     v \in {B64Encode(IV1), B64Encode(SubSeq(IV1, 1, 15))},
     s \in {B64Encode(Salt1), <<65, 65, 65>>}}

Callers == {1, 2}

----------------------------------------------------------------------------
(* State *)

VARIABLES
  pc,        \* pc[c]: the statement invocation c executes next
  arg,       \* arg[c]: the four arguments of invocation c
  ciphertext, iv, salt, key, buf,  \* the locals of a frame
  dec,       \* the cipher of a frame: the key and IV it was set up with
  slice,     \* length of the slice decrypt_padded_mut returned, -1 if none
  result     \* result[c]: what invocation c returned

NoCipher == [key |-> <<>>, iv |-> <<>>]

vars == <<pc, arg, ciphertext, iv, salt, key, buf, dec, slice, result>>

\* variant: the locals live in one static area shared by all invocations
SharedFrame(c) == 1

\* the frame holding the locals of invocation c: every `let` of the function
\* body is owned by the invocation, there is no static
Frame(c) == c

InitWith(cs) ==
  /\ pc = [c \in cs |-> "idle"]
  /\ arg = [c \in cs |-> Arg(<<>>, <<>>, <<>>, <<>>)]
  /\ ciphertext = [c \in cs |-> <<>>]
  /\ iv = [c \in cs |-> <<>>]
  /\ salt = [c \in cs |-> <<>>]
  /\ key = [c \in cs |-> <<>>]
  /\ buf = [c \in cs |-> <<>>]
  /\ dec = [c \in cs |-> NoCipher]
  /\ slice = [c \in cs |-> -1]
  /\ result = [c \in cs |-> Pending]

Init == InitWith({1})
InitConc == InitWith(Callers)

Goto(c, l) == pc' = [pc EXCEPT ![c] = l]

\* return r
Return(c, r) ==
  /\ result' = [result EXCEPT ![c] = r]
  /\ Goto(c, "done")

\* the host calls decrypt_sync with arguments a drawn from as
Call(c, as) ==
  /\ pc[c] = "idle"
  /\ \E a \in as : arg' = [arg EXCEPT ![c] = a]
  /\ Goto(c, "decode_ciphertext")
  /\ UNCHANGED <<ciphertext, iv, salt, key, buf, dec, slice, result>>

\* the host has taken the returned value; the locals were dropped at the
\* return, and the caller may call again
Release(c) ==
  /\ pc[c] = "done"
  /\ Goto(c, "idle")
  /\ ciphertext' = [ciphertext EXCEPT ![Frame(c)] = <<>>]
  /\ iv' = [iv EXCEPT ![Frame(c)] = <<>>]
  /\ salt' = [salt EXCEPT ![Frame(c)] = <<>>]
  /\ key' = [key EXCEPT ![Frame(c)] = <<>>]
  /\ buf' = [buf EXCEPT ![Frame(c)] = <<>>]
  /\ dec' = [dec EXCEPT ![Frame(c)] = NoCipher]
  /\ slice' = [slice EXCEPT ![Frame(c)] = -1]
  /\ result' = [result EXCEPT ![c] = Pending]
  /\ UNCHANGED arg

\* lib.rs:33
DecodeCiphertext(c) ==
  /\ pc[c] = "decode_ciphertext"
  /\ LET r == b64_to_bytes(arg[c].b64_ciphertext)
     IN  IF r.ok
         THEN /\ ciphertext' = [ciphertext EXCEPT ![Frame(c)] = r.bytes]
              /\ Goto(c, "decode_iv")
              /\ UNCHANGED result
         ELSE /\ Return(c, Err(InvalidEncoding))
              /\ UNCHANGED ciphertext
  /\ UNCHANGED <<arg, iv, salt, key, buf, dec, slice>>

\* variant: the IV length is checked as soon as the IV is decoded, before the
\* salt is
DecodeIvThenCheck(c) ==
  /\ pc[c] = "decode_iv"
  /\ LET r == b64_to_bytes(arg[c].b64_iv)
     IN  IF ~r.ok
         THEN /\ Return(c, Err(InvalidEncoding))
              /\ UNCHANGED iv
         ELSE IF Len(r.bytes) # BlockSize
         THEN /\ Return(c, Err(InvalidIVLength))
              /\ UNCHANGED iv
         ELSE /\ iv' = [iv EXCEPT ![Frame(c)] = r.bytes]
              /\ Goto(c, "decode_salt")
              /\ UNCHANGED result
  /\ UNCHANGED <<arg, ciphertext, salt, key, buf, dec, slice>>

\* lib.rs:34
DecodeIv(c) ==
  /\ pc[c] = "decode_iv"
  /\ LET r == b64_to_bytes(arg[c].b64_iv)
     IN  IF r.ok
         THEN /\ iv' = [iv EXCEPT ![Frame(c)] = r.bytes]
              /\ Goto(c, "decode_salt")
              /\ UNCHANGED result
         ELSE /\ Return(c, Err(InvalidEncoding))
              /\ UNCHANGED iv
  /\ UNCHANGED <<arg, ciphertext, salt, key, buf, dec, slice>>

\* lib.rs:35
DecodeSalt(c) ==
  /\ pc[c] = "decode_salt"
  /\ LET r == b64_to_bytes(arg[c].b64_salt)
     IN  IF r.ok
         THEN /\ salt' = [salt EXCEPT ![Frame(c)] = r.bytes]
              /\ Goto(c, "check_iv")
              /\ UNCHANGED result
         ELSE /\ Return(c, Err(InvalidEncoding))
              /\ UNCHANGED salt
  /\ UNCHANGED <<arg, ciphertext, iv, key, buf, dec, slice>>

\* variant: no length check, the cipher setup is left to reject the IV
CheckIvLenOmitted(c) ==
  /\ pc[c] = "check_iv"
  /\ Goto(c, "derive")
  /\ UNCHANGED <<arg, ciphertext, iv, salt, key, buf, dec, slice, result>>

\* lib.rs:37-39
CheckIvLen(c) ==
  /\ pc[c] = "check_iv"
  /\ IF Len(iv[Frame(c)]) # BlockSize
     THEN Return(c, Err(InvalidIVLength))
     ELSE Goto(c, "derive") /\ UNCHANGED result
  /\ UNCHANGED <<arg, ciphertext, iv, salt, key, buf, dec, slice>>

\* variant: a 128-bit key is derived
DeriveAes128Key(c) ==
  /\ pc[c] = "derive"
  /\ key' = [key EXCEPT ![Frame(c)] =
               SubSeq(pbkdf2_hmac_array(arg[c].password, salt[Frame(c)], Iterations),
                      1, 16)]
  /\ Goto(c, "setup")
  /\ UNCHANGED <<arg, ciphertext, iv, salt, buf, dec, slice, result>>

\* lib.rs:42
Derive(c) ==
  /\ pc[c] = "derive"
  /\ key' = [key EXCEPT ![Frame(c)] =
               pbkdf2_hmac_array(arg[c].password, salt[Frame(c)], Iterations)]
  /\ Goto(c, "setup")
  /\ UNCHANGED <<arg, ciphertext, iv, salt, buf, dec, slice, result>>

\* lib.rs:45-47: the ciphertext is moved into buf, then the cipher is set up
Setup(c) ==
  /\ pc[c] = "setup"
  /\ buf' = [buf EXCEPT ![Frame(c)] = ciphertext[Frame(c)]]
  /\ IF new_from_slices(key[Frame(c)], iv[Frame(c)])
     THEN /\ dec' = [dec EXCEPT ![Frame(c)] =
                       [key |-> key[Frame(c)], iv |-> iv[Frame(c)]]]
          /\ Goto(c, "decrypt")
          /\ UNCHANGED result
     ELSE /\ Return(c, Err(InvalidKeyLength))
          /\ UNCHANGED dec
  /\ UNCHANGED <<arg, ciphertext, iv, salt, key, slice>>

\* lib.rs:49-50, decrypt_padded_mut up to the padding: a buffer that is not
\* whole blocks is rejected untouched, otherwise it is decrypted in place
Decrypt(c) ==
  /\ pc[c] = "decrypt"
  /\ IF Len(buf[Frame(c)]) % BlockSize # 0
     THEN /\ Return(c, Err(DecryptionError))
          /\ UNCHANGED buf
     ELSE /\ buf' = [buf EXCEPT ![Frame(c)] =
                       decrypt_blocks_mut(dec[Frame(c)].key, dec[Frame(c)].iv,
                                          buf[Frame(c)])]
          /\ Goto(c, "unpad")
          /\ UNCHANGED result
  /\ UNCHANGED <<arg, ciphertext, iv, salt, key, dec, slice>>

\* lib.rs:49-50, the padding check of decrypt_padded_mut: the slice without
\* the padding is returned and dropped by the caller, buf keeps its length
Unpad(c) ==
  /\ pc[c] = "unpad"
  /\ LET u == unpad_blocks(buf[Frame(c)])
     IN  IF u.ok
         THEN /\ slice' = [slice EXCEPT ![Frame(c)] = u.len]
              /\ Goto(c, "validate")
              /\ UNCHANGED result
         ELSE /\ Return(c, Err(DecryptionError))
              /\ UNCHANGED slice
  /\ UNCHANGED <<arg, ciphertext, iv, salt, key, buf, dec>>

\* lib.rs:53: the whole of buf is turned into the returned String
Validate(c) ==
  /\ pc[c] = "validate"
  /\ Return(c, from_utf8(buf[Frame(c)]))
  /\ UNCHANGED <<arg, ciphertext, iv, salt, key, buf, dec, slice>>

Run ==
  \/ \E c \in DOMAIN pc : DecodeCiphertext(c)
  \/ \E c \in DOMAIN pc : DecodeIv(c)
  \/ \E c \in DOMAIN pc : DecodeSalt(c)
  \/ \E c \in DOMAIN pc : CheckIvLen(c)
  \/ \E c \in DOMAIN pc : Derive(c)
  \/ \E c \in DOMAIN pc : Setup(c)
  \/ \E c \in DOMAIN pc : Decrypt(c)
  \/ \E c \in DOMAIN pc : Unpad(c)
  \/ \E c \in DOMAIN pc : Validate(c)

Next ==
  \/ \E c \in DOMAIN pc : Call(c, Args)
  \/ Run

NextConc ==
  \/ \E c \in DOMAIN pc : Call(c, ArgsConc)
  \/ \E c \in DOMAIN pc : Release(c)
  \/ Run

Spec == Init /\ [][Next]_vars

\* the call is synchronous: once entered, the body runs to its return
SpecFair == Spec /\ WF_vars(Run)

SpecConc == InitConc /\ [][NextConc]_vars

----------------------------------------------------------------------------
(* Properties *)

Done(c) == pc[c] = "done"
Bytes(x) == B64Decode(x).bytes
AllDecode(a) ==
  B64Decode(a.b64_ciphertext).ok /\ B64Decode(a.b64_iv).ok /\ B64Decode(a.b64_salt).ok

\* C1 as stated: decrypting the encryption of a UTF-8 plaintext p under the
\* same password, salt and IV returns exactly p
RoundTrip ==
  \A c \in DOMAIN pc :
    Done(c) =>
      \A p \in Plaintexts, s \in Salts, v \in {IV1, IV2} :
        (/\ Utf8Valid(p)
         /\ arg[c].b64_iv = B64Encode(v)
         /\ arg[c].b64_salt = B64Encode(s)
         /\ arg[c].b64_ciphertext = B64Encode(Encrypt(p, arg[c].password, s, v)))
          => result[c] = Ok(p)

\* C2 as stated: a successful call returns the decrypted buffer without its
\* last n bytes, n being the padding byte the buffer ends in
PaddingStripped ==
  \A c \in DOMAIN pc :
    (Done(c) /\ result[c].kind = "ok") =>
      LET b == buf[Frame(c)]
      IN  result[c].text = SubSeq(b, 1, Len(b) - b[Len(b)])

\* C3: malformed base64 in any of the three arguments yields "invalid
\* base64" whatever the other arguments are, and the key is derived only
\* when all three decode
MalformedIsInvalidEncoding ==
  \A c \in DOMAIN pc :
    /\ (Done(c) /\ ~AllDecode(arg[c])) => result[c] = Err(InvalidEncoding)
    /\ (pc[c] \in {"derive", "setup", "decrypt", "unpad", "validate"}
          \/ key[Frame(c)] # <<>>) => AllDecode(arg[c])

MalformedWithShortIv ==
  \E c \in DOMAIN pc :
    /\ Done(c)
    /\ result[c] = Err(InvalidEncoding)
    /\ ~B64Decode(arg[c].b64_salt).ok
    /\ B64Decode(arg[c].b64_iv).ok
    /\ Len(Bytes(arg[c].b64_iv)) = 15

\* C4: when all three arguments decode and the IV is not 16 bytes the call
\* yields "IV must be 16 bytes", whatever the ciphertext and password are
WrongIvLength ==
  \A c \in DOMAIN pc :
    (Done(c) /\ AllDecode(arg[c]) /\ Len(Bytes(arg[c].b64_iv)) # 16)
      => result[c] = Err(InvalidIVLength)

WrongIvLengthEmptyCiphertext ==
  \E c \in DOMAIN pc :
    /\ Done(c)
    /\ AllDecode(arg[c])
    /\ Len(Bytes(arg[c].b64_iv)) = 17
    /\ Len(Bytes(arg[c].b64_ciphertext)) = 0
    /\ result[c] = Err(InvalidIVLength)

\* C5: with a 16-byte IV, a ciphertext of zero bytes or of a length that is
\* not a multiple of 16 yields "decryption / padding error", never a text
Misaligned ==
  \A c \in DOMAIN pc :
    (/\ Done(c)
     /\ AllDecode(arg[c])
     /\ Len(Bytes(arg[c].b64_iv)) = 16
     /\ LET n == Len(Bytes(arg[c].b64_ciphertext)) IN n = 0 \/ n % 16 # 0)
      => result[c] = Err(DecryptionError)

EmptyCiphertextRejected ==
  \E c \in DOMAIN pc :
    /\ Done(c)
    /\ AllDecode(arg[c])
    /\ Len(Bytes(arg[c].b64_iv)) = 16
    /\ Len(Bytes(arg[c].b64_ciphertext)) = 0
    /\ result[c] = Err(DecryptionError)

\* the PKCS#7 check as the specification words it, on a decrypted buffer
PaddingFails(b) ==
  LET n == b[Len(b)]
  IN  n = 0 \/ n > 16 \/ \E i \in (Len(b) - n + 1)..Len(b) : b[i] # n

\* block decryption of invocation c has completed on whole blocks
Decrypted(c) ==
  /\ AllDecode(arg[c])
  /\ Len(Bytes(arg[c].b64_iv)) = 16
  /\ Len(Bytes(arg[c].b64_ciphertext)) > 0
  /\ Len(Bytes(arg[c].b64_ciphertext)) % 16 = 0

\* C6: once the blocks of a non-empty aligned ciphertext are decrypted, the
\* call fails with "decryption / padding error" exactly when the PKCS#7
\* check fails, and then returns neither a text nor "invalid utf-8"
PaddingDecides ==
  \A c \in DOMAIN pc :
    (Done(c) /\ Decrypted(c)) =>
      (result[c] = Err(DecryptionError) <=> PaddingFails(buf[Frame(c)]))

BrokenPaddingRun ==
  \E c \in DOMAIN pc :
    /\ Done(c)
    /\ Decrypted(c)
    /\ result[c] = Err(DecryptionError)
    /\ LET b == buf[Frame(c)]
       IN  b[Len(b)] = 4 /\ b[Len(b) - 1] = 4 /\ b[Len(b) - 3] # 4

\* C7: after a successful unpadding the call yields "invalid utf-8" exactly
\* when the bytes before the padding are not UTF-8, and a text exactly when
\* they are
Utf8Verdict ==
  \A c \in DOMAIN pc :
    (Done(c) /\ slice[Frame(c)] >= 0) =>
      LET rest == SubSeq(buf[Frame(c)], 1, slice[Frame(c)])
      IN  /\ result[c].kind = InvalidUTF8 <=> ~Utf8Valid(rest)
          /\ result[c].kind = "ok" <=> Utf8Valid(rest)

TruncatedCharacterRejected ==
  \E c \in DOMAIN pc :
    /\ Done(c)
    /\ slice[Frame(c)] = 2
    /\ buf[Frame(c)][2] = 195
    /\ result[c] = Err(InvalidUTF8)

\* C8: two invocations with the same four arguments return the same outcome,
\* whatever ran before them and however they interleave
Deterministic ==
  \A c, d \in DOMAIN pc :
    (Done(c) /\ Done(d) /\ arg[c] = arg[d]) => result[c] = result[d]

SameArgumentsTwice ==
  /\ \A c \in Callers : Done(c) /\ result[c].kind = "ok"
  /\ arg[1] = arg[2]

\* the stage a statement belongs to: Decode, Derive, Decrypt, Unpad,
\* Validate, 0 before the call and 6 for the return
Stage(l) ==
  CASE l = "idle" -> 0
    [] l \in {"decode_ciphertext", "decode_iv", "decode_salt", "check_iv"} -> 1
    [] l = "derive" -> 2
    [] l \in {"setup", "decrypt"} -> 3
    [] l = "unpad" -> 4
    [] l = "validate" -> 5
    [] l = "done" -> 6

Errors ==
  {InvalidEncoding, InvalidIVLength, InvalidKeyLength, DecryptionError, InvalidUTF8}

Terminal ==
  \A c \in DOMAIN pc :
    /\ Done(c) <=> result[c] # Pending
    /\ result[c].kind \in {"pending", "ok"} \cup Errors
    /\ result[c].kind # "ok" => result[c].text = <<>>

Forward ==
  \A c \in DOMAIN pc :
    /\ Stage(pc'[c]) \in {Stage(pc[c]), Stage(pc[c]) + 1, 6}
    /\ pc[c] # "done" => pc'[c] # pc[c]
    /\ pc[c] # "idle" => arg'[c] = arg[c]
    /\ result'[c] # result[c] => (result[c] = Pending /\ pc'[c] = "done")
    /\ Done(c) => (pc'[c] = "done" /\ result'[c] = result[c])

\* C9: an invocation moves through Decode, Derive, Decrypt, Unpad, Validate
\* in that order without going back, a failing stage returns at once, and the
\* call always ends in one returned text or one error that carries no bytes
Pipeline ==
  /\ []Terminal
  /\ [][Forward]_vars
  /\ (\E c \in DOMAIN pc : pc[c] # "idle") ~> (\A c \in DOMAIN pc : Done(c))

FailedAtUnpad ==
  \E c \in DOMAIN pc :
    /\ Done(c)
    /\ result[c] = Err(DecryptionError)
    /\ Decrypted(c)

\* C10: the derived key is always 32 bytes and the cipher is set up only with
\* a 16-byte IV, so "invalid key/iv length" is never returned
KeyLengthUnreachable ==
  \A c \in DOMAIN pc :
    /\ pc[c] \in {"setup", "decrypt", "unpad", "validate"}
         => (Len(key[Frame(c)]) = 32 /\ Len(iv[Frame(c)]) = 16)
    /\ result[c].kind # InvalidKeyLength

CipherSetUp ==
  \E c \in DOMAIN pc : pc[c] = "decrypt" /\ Len(key[Frame(c)]) = 32

====
